---- MODULE Spec2Model ----
(***************************************************************************)
(* Model of the two reconcilers of the hardware management plugin:         *)
(* AllocationReconciler (allocation_reconciler.go) and ReleaseReconciler   *)
(* (release_reconciler.go), which differ only in processUpdate.  A         *)
(* Reconcile pass is split at its blocking calls (store calls and hooks),  *)
(* so that other writers, store failures and process stops can interleave  *)
(* between any two of them.  The dispatcher runs one pass at a time for an *)
(* identity.                                                               *)
(*                                                                         *)
(* The store and the client library are external to the repository; they   *)
(* are modelled by what they do: client.Patch with clnt.MergeFrom(object)  *)
(* sends the JSON merge patch between the snapshot and the mutated copy    *)
(* (a list such as finalizers is replaced as a whole, and a                *)
(* resourceVersion is part of the patch only when the two differ), and the *)
(* response of every successful patch is decoded into the copy.            *)
(***************************************************************************)
EXTENDS Naturals, Sequences, FiniteSets, TLC

\* Number of spec updates a requester may make to one object.
MaxGen == 1

\* Number of faults (a store call that is unavailable, a process stop) in a
\* behaviour of FairSpec.
MaxFaults == 1

\* The identities, one per kind (main.go registers one reconciler per kind).
Objs == {"alloc", "rel"}

Kind(o) == IF o = "alloc" THEN "NodeAllocationRequest" ELSE "NodeReleaseRequest"

\* The token of this engine, and the token of some other controller.
finalizerName == "acme/finalizer"
otherFinalizer == "other/finalizer"

\* The values uuid.NewString() can return.
UUIDs == {"uuid-a", "uuid-b"}

BMCAddress == "https://mybmc.com"

SecretName(o) == o \o "-bmc"

VARIABLES
  store,      \* store[o]: the managed object as persisted
  secret,     \* secret[o]: owner of the credentials record of o, or "none"
  queue,      \* identities with a pending reconcile trigger
  pc,         \* pc[o]: position of the pass in flight for o, "idle" if none
  object,     \* object[o]: snapshot fetched by the pass (Reconcile's `object`)
  copy,       \* copy[o]: the mutated copy (Reconcile's `copy`)
  deleting,   \* deleting[o]: Reconcile's `deleting`, of the current or last pass
  finalizer,  \* finalizer[o]: Reconcile's `finalizer`, likewise
  plog,       \* plog[o]: calls made by the current (or last) pass of o
  result,     \* result[o]: what the last pass returned
  gets,       \* gets[o]: passes started for o, counted up to 2
  prev,       \* prev[o]: how the previous pass ended, if nothing external
              \*          has touched o since that pass started
  pair,       \* pair[o]: after the second of two passes in succession,
              \*          how the first of them ended
  faults      \* faults counted so far (FairSpec only)

vars == <<store, secret, queue, pc, object, copy, deleting, finalizer, plog,
          result, gets, prev, pair, faults>>

(***************************************************************************)
(* Objects                                                                 *)
(***************************************************************************)
EmptyStatus ==
  [NodeID |-> "", Address |-> "", CredentialsName |-> "", Fulfilled |-> FALSE]

Blank(phase) ==
  [phase |-> phase, rv |-> 0, deleting |-> FALSE, finalizers |-> {},
   gen |-> 0, status |-> EmptyStatus]

NoObject == Blank("absent")
GoneObject == Blank("gone")

Live(obj) == obj.phase = "live"

\* !object.DeletionTimestamp.IsZero()
IsDeleting(obj) == obj.deleting

\* controllerutil.ContainsFinalizer / AddFinalizer / RemoveFinalizer
ContainsFinalizer(obj, f) == f \in obj.finalizers

AddFinalizer(obj, f) == [obj EXCEPT !.finalizers = @ \cup {f}]

\* Mutant: the token is not removed.
RemoveFinalizerKeeps(obj, f) == obj

RemoveFinalizer(obj, f) == [obj EXCEPT !.finalizers = @ \ {f}]

(***************************************************************************)
(* clnt.MergeFrom(object): the merge patch from orig to mod.  `fields` are *)
(* the paths whose values differ; the other components carry the values of *)
(* mod for those paths.                                                    *)
(***************************************************************************)
DiffFields(orig, mod) ==
  (IF orig.rv # mod.rv THEN {"metadata.resourceVersion"} ELSE {})
  \cup (IF orig.finalizers # mod.finalizers THEN {"metadata.finalizers"} ELSE {})
  \cup (IF orig.gen # mod.gen THEN {"spec"} ELSE {})
  \cup (IF orig.status.NodeID # mod.status.NodeID THEN {"status.nodeID"} ELSE {})
  \cup (IF orig.status.Address # mod.status.Address
          THEN {"status.bmc.address"} ELSE {})
  \cup (IF orig.status.CredentialsName # mod.status.CredentialsName
          THEN {"status.bmc.credentialsName"} ELSE {})
  \cup (IF orig.status.Fulfilled # mod.status.Fulfilled
          THEN {"status.conditions"} ELSE {})

MergeFrom(orig, mod) ==
  [fields |-> DiffFields(orig, mod), rv |-> mod.rv, finalizers |-> mod.finalizers,
   gen |-> mod.gen, status |-> mod.status]

(***************************************************************************)
(* The store's side of a patch.  A patch is checked against the current    *)
(* resourceVersion only if it carries one; finalizers cannot be added to   *)
(* an object that is being deleted; a patch that changes nothing leaves    *)
(* the resourceVersion alone; an object that is being deleted and has no   *)
(* finalizers left is removed.                                             *)
(***************************************************************************)
PatchCode(cur, p, sub) ==
  IF ~Live(cur) THEN "NotFound"
  ELSE IF "metadata.resourceVersion" \in p.fields /\ p.rv # cur.rv THEN "Conflict"
  ELSE IF /\ sub = "meta"
          /\ cur.deleting
          /\ "metadata.finalizers" \in p.fields
          /\ ~(p.finalizers \subseteq cur.finalizers) THEN "Invalid"
  ELSE "ok"

Collect(obj) == IF obj.deleting /\ obj.finalizers = {} THEN GoneObject ELSE obj

ApplyMeta(cur, p) ==
  LET fin == IF "metadata.finalizers" \in p.fields THEN p.finalizers ELSE cur.finalizers
      gen == IF "spec" \in p.fields THEN p.gen ELSE cur.gen
      changed == fin # cur.finalizers \/ gen # cur.gen
  IN [cur EXCEPT !.finalizers = fin, !.gen = gen,
                 !.rv = IF changed THEN @ + 1 ELSE @]

ApplyStatus(cur, p) ==
  LET st == [NodeID |-> IF "status.nodeID" \in p.fields
                          THEN p.status.NodeID ELSE cur.status.NodeID,
             Address |-> IF "status.bmc.address" \in p.fields
                           THEN p.status.Address ELSE cur.status.Address,
             CredentialsName |-> IF "status.bmc.credentialsName" \in p.fields
                                   THEN p.status.CredentialsName
                                   ELSE cur.status.CredentialsName,
             Fulfilled |-> IF "status.conditions" \in p.fields
                             THEN p.status.Fulfilled ELSE cur.status.Fulfilled]
  IN [cur EXCEPT !.status = st, !.rv = IF st # cur.status THEN @ + 1 ELSE @]

Patched(cur, p, sub) == IF sub = "meta" THEN ApplyMeta(cur, p) ELSE ApplyStatus(cur, p)

(***************************************************************************)
(* The log of a pass: one entry per call, with the code the call returned; *)
(* for a patch, the paths it carried, the finalizers it sent, whether the  *)
(* stored object differed from the snapshot when it arrived, and whether   *)
(* it changed what is stored.                                              *)
(***************************************************************************)
Entry(op, code, fields, fin, stale, changed) ==
  [op |-> op, code |-> code, fields |-> fields, finalizers |-> fin,
   stale |-> stale, changed |-> changed]

Call(op, code) == Entry(op, code, {}, {}, FALSE, FALSE)

PatchOps == {"AddFinalizerPatch", "StatusPatch", "RemoveFinalizerPatch"}

\* What a reader of the store sees of o: its finalizers and its status.
Content(obj) == [phase |-> obj.phase, finalizers |-> obj.finalizers, status |-> obj.status]

None == [branch |-> "none"]

Ended(o, branch, res, obj) == [branch |-> branch, result |-> res, content |-> Content(obj)]

Init ==
  /\ store = [o \in Objs |-> NoObject]
  /\ secret = [o \in Objs |-> "none"]
  /\ queue = {}
  /\ pc = [o \in Objs |-> "idle"]
  /\ object = [o \in Objs |-> NoObject]
  /\ copy = [o \in Objs |-> NoObject]
  /\ deleting = [o \in Objs |-> FALSE]
  /\ finalizer = [o \in Objs |-> FALSE]
  /\ plog = [o \in Objs |-> <<>>]
  /\ result = [o \in Objs |-> "none"]
  /\ gets = [o \in Objs |-> 0]
  /\ prev = [o \in Objs |-> None]
  /\ pair = [o \in Objs |-> None]
  /\ faults = 0

(***************************************************************************)
(* Requesters, other controllers, the dispatcher and the process           *)
(***************************************************************************)
Notify(o, changed) == IF changed THEN queue \cup {o} ELSE queue

\* A write by anyone but the engine: the store changes, a trigger is queued.
External(o, new) ==
  /\ store' = [store EXCEPT ![o] = new]
  /\ queue' = queue \cup {o}
  /\ prev' = [prev EXCEPT ![o] = None]
  /\ pair' = [pair EXCEPT ![o] = None]
  /\ UNCHANGED <<secret, pc, object, copy, deleting, finalizer, plog, result, gets>>

\* A requester creates the object, possibly with another controller's token.
\* A behaviour follows one managed object, of either kind, and an identity
\* is not used again once its object is gone.
Create(o) ==
  /\ \A other \in Objs : store[other].phase = "absent"
  /\ \E fin \in SUBSET {otherFinalizer} :
       External(o, [Blank("live") EXCEPT !.rv = 1, !.finalizers = fin])

\* A requester changes the spec.
SpecUpdate(o) ==
  /\ Live(store[o])
  /\ store[o].gen < MaxGen
  /\ External(o, [store[o] EXCEPT !.gen = @ + 1, !.rv = @ + 1])

\* A delete request: sets deletionTimestamp (a foreground delete also adds a
\* token of the garbage collector); with no finalizers the object is removed.
Delete(o) ==
  /\ Live(store[o])
  /\ ~store[o].deleting
  /\ \E fg \in SUBSET {otherFinalizer} :
       External(o, Collect([store[o] EXCEPT !.deleting = TRUE, !.rv = @ + 1,
                                            !.finalizers = @ \cup fg]))

\* The other controller removes its own token.
OtherRemove(o) ==
  /\ Live(store[o])
  /\ otherFinalizer \in store[o].finalizers
  /\ External(o, Collect([store[o] EXCEPT !.finalizers = @ \ {otherFinalizer},
                                          !.rv = @ + 1]))

\* The dispatcher may deliver an identity again at any time.
Redeliver(o) ==
  /\ store[o].phase # "absent"
  /\ o \notin queue
  /\ queue' = queue \cup {o}
  /\ UNCHANGED <<store, secret, pc, object, copy, deleting, finalizer, plog,
                 result, gets, prev, pair>>

\* The process stops with passes in flight; a fresh instance lists the store.
Stop ==
  /\ \E o \in Objs : pc[o] # "idle"
  /\ pc' = [o \in Objs |-> "idle"]
  /\ object' = [o \in Objs |-> NoObject]
  /\ copy' = [o \in Objs |-> NoObject]
  /\ result' = [o \in Objs |-> IF pc[o] # "idle" THEN "stopped" ELSE result[o]]
  /\ prev' = [o \in Objs |-> IF pc[o] # "idle" THEN None ELSE prev[o]]
  /\ queue' = {o \in Objs : Live(store[o])}
  /\ UNCHANGED <<store, secret, deleting, finalizer, plog, gets, pair>>

(***************************************************************************)
(* Reconcile                                                               *)
(***************************************************************************)
\* Mutant: the last two branches are taken the wrong way round.
BranchSwapped(del, fin) ==
  IF ~del /\ ~fin THEN "addFinalizer"
  ELSE IF del THEN "processUpdate"
  ELSE "processDelete"

\* Mutant: an object without the finalizer is claimed even when it is being
\* deleted.
BranchClaimsDeleting(del, fin) ==
  IF ~fin THEN "addFinalizer"
  ELSE IF del THEN "processDelete"
  ELSE "processUpdate"

\* Reconcile's three-way decision on `deleting` and `finalizer`.
Branch(del, fin) ==
  IF ~del /\ ~fin THEN "addFinalizer"
  ELSE IF del THEN "processDelete"
  ELSE "processUpdate"

\* The end of a call of Reconcile, as seen by two calls in succession.
EndPass(o, branch, res, obj) ==
  /\ pair' = [pair EXCEPT ![o] =
                IF prev[o].branch \notin {"none", "start"} THEN prev[o] ELSE None]
  /\ prev' = [prev EXCEPT ![o] =
                IF prev[o] = None THEN None ELSE Ended(o, branch, res, obj)]

\* Mutant: an error returned by a pass stops the process, and with it the
\* passes in flight for the other identities.
ReturnStopsProcess(o, ok, changed, obj) ==
  /\ pc' = IF ok THEN [pc EXCEPT ![o] = "idle"] ELSE [x \in Objs |-> "idle"]
  /\ object' = IF ok THEN [object EXCEPT ![o] = NoObject] ELSE [x \in Objs |-> NoObject]
  /\ copy' = IF ok THEN [copy EXCEPT ![o] = NoObject] ELSE [x \in Objs |-> NoObject]
  /\ result' = [result EXCEPT ![o] = IF ok THEN "success" ELSE "error"]
  /\ queue' = Notify(o, changed \/ ~ok)
  /\ EndPass(o, Branch(deleting[o], finalizer[o]), IF ok THEN "success" ELSE "error", obj)

\* Reconcile returns: the locals are dropped, an error is a retry signal.
Return(o, ok, changed, obj) ==
  /\ pc' = [pc EXCEPT ![o] = "idle"]
  /\ object' = [object EXCEPT ![o] = NoObject]
  /\ copy' = [copy EXCEPT ![o] = NoObject]
  /\ result' = [result EXCEPT ![o] = IF ok THEN "success" ELSE "error"]
  /\ queue' = Notify(o, changed \/ ~ok)
  /\ EndPass(o, Branch(deleting[o], finalizer[o]), IF ok THEN "success" ELSE "error", obj)

\* Mutant: not-found is returned as an error.
GetResultNotFoundIsError(code) == "error"

\* Lines 47-59: what Reconcile returns when Get fails.
GetResult(code) == IF code = "NotFound" THEN "success" ELSE "error"

\* Lines 46-67: r.client.Get and the decision that follows it.
Get(o) ==
  /\ pc[o] = "idle"
  /\ o \in queue
  /\ gets' = [gets EXCEPT ![o] = IF @ < 2 THEN @ + 1 ELSE @]
  /\ UNCHANGED <<store, secret>>
  /\ \E code \in {IF Live(store[o]) THEN "ok" ELSE "NotFound", "Unavailable"} :
       /\ plog' = [plog EXCEPT ![o] = <<Call("Get", code)>>]
       /\ IF code = "ok"
            THEN /\ deleting' = [deleting EXCEPT ![o] = IsDeleting(store[o])]
                 /\ finalizer' = [finalizer EXCEPT ![o] =
                                    ContainsFinalizer(store[o], finalizerName)]
                 /\ pc' = [pc EXCEPT ![o] = Branch(deleting'[o], finalizer'[o])]
                 /\ object' = [object EXCEPT ![o] = store[o]]
                 /\ copy' = [copy EXCEPT ![o] = store[o]]
                 /\ result' = [result EXCEPT ![o] = "running"]
                 /\ queue' = queue \ {o}
                 /\ prev' = [prev EXCEPT ![o] = IF @ = None THEN [branch |-> "start"] ELSE @]
                 /\ pair' = [pair EXCEPT ![o] = None]
            ELSE /\ deleting' = [deleting EXCEPT ![o] = FALSE]
                 /\ finalizer' = [finalizer EXCEPT ![o] = FALSE]
                 /\ result' = [result EXCEPT ![o] = GetResult(code)]
                 /\ queue' = IF GetResult(code) = "success" THEN queue \ {o} ELSE queue
                 /\ pair' = [pair EXCEPT ![o] =
                               IF prev[o].branch \notin {"none", "start"}
                                 THEN prev[o] ELSE None]
                 /\ prev' = [prev EXCEPT ![o] = Ended(o, code, result'[o], store[o])]
                 /\ UNCHANGED <<pc, object, copy>>

\* Mutant: the error of a patch is not checked.
ContinuesAnyway(ok, next) == next # "idle"

\* `if err != nil { return }` after a patch; "idle" stands for the final return.
Continues(ok, next) == ok /\ next # "idle"

\* One patch call: client.Patch (sub = "meta") or client.Status().Patch
\* (sub = "status") of c against the snapshot.  On success the response is
\* decoded into the copy and the pass continues at next ("idle": it returns);
\* on an error the pass returns the error.
SendPatch(o, op, sub, c, next) ==
  LET p == MergeFrom(object[o], c)
      cur == store[o]
  IN \E code \in {PatchCode(cur, p, sub), "Unavailable"} :
       LET ok == code = "ok"
           new == IF ok THEN Collect(Patched(cur, p, sub)) ELSE cur
           changed == new # cur
       IN /\ store' = [store EXCEPT ![o] = new]
          /\ plog' = [plog EXCEPT ![o] =
                        Append(@, Entry(op, code, p.fields, p.finalizers,
                                        cur # object[o], changed))]
          /\ IF Continues(ok, next)
               THEN /\ pc' = [pc EXCEPT ![o] = next]
                    /\ copy' = [copy EXCEPT ![o] = new]
                    /\ queue' = Notify(o, changed)
                    /\ UNCHANGED <<object, result, prev, pair>>
               ELSE Return(o, ok, changed, new)
          /\ UNCHANGED <<secret, deleting, finalizer, gets>>

\* Mutant: the return after the patch is missing.
AddFinalizerPatchFallsThrough(o) ==
  /\ pc[o] = "addFinalizer"
  /\ SendPatch(o, "AddFinalizerPatch", "meta",
               AddFinalizer(copy[o], finalizerName), "processUpdate")

\* Lines 73-86: add the finalizer, patch, return.
AddFinalizerPatch(o) ==
  /\ pc[o] = "addFinalizer"
  /\ SendPatch(o, "AddFinalizerPatch", "meta",
               AddFinalizer(copy[o], finalizerName), "idle")

\* processDelete: logs and returns no error.
ProcessDelete(o) ==
  /\ pc[o] = "processDelete"
  /\ plog' = [plog EXCEPT ![o] = Append(@, Call("processDelete", "ok"))]
  /\ pc' = [pc EXCEPT ![o] = "deleteStatusPatch"]
  /\ UNCHANGED <<store, secret, queue, object, copy, deleting, finalizer,
                 result, gets, prev, pair>>

\* Mutant: the pass returns after the status patch.
DeleteStatusPatchReturns(o) ==
  /\ pc[o] = "deleteStatusPatch"
  /\ SendPatch(o, "StatusPatch", "status", copy[o], "idle")

\* Lines 95-104: the status patch of the deleting pass.
DeleteStatusPatch(o) ==
  /\ pc[o] = "deleteStatusPatch"
  /\ SendPatch(o, "StatusPatch", "status", copy[o], "removeFinalizer")

\* Lines 105-116: remove the finalizer, patch, return.
RemoveFinalizerPatch(o) ==
  /\ pc[o] = "removeFinalizer"
  /\ SendPatch(o, "RemoveFinalizerPatch", "meta",
               RemoveFinalizer(copy[o], finalizerName), "idle")

\* Mutant: the identifier is generated without the check.
AssignNodeIDAlways(status, id) == [status EXCEPT !.NodeID = id]

\* processUpdate of the allocation reconciler, lines 167-169.
AssignNodeID(status, id) ==
  IF status.NodeID = "" THEN [status EXCEPT !.NodeID = id] ELSE status

\* Mutant: the reference to the credentials record is not set.
FulfilAllocationNoReference(status, name) ==
  [status EXCEPT !.Address = BMCAddress, !.Fulfilled = TRUE]

\* processUpdate of the allocation reconciler, lines 202-211.
FulfilAllocation(status, name) ==
  [status EXCEPT !.Address = BMCAddress, !.CredentialsName = name,
                 !.Fulfilled = TRUE]

\* Mutant: the condition is not set.
FulfilReleaseForgets(status) == status

\* processUpdate of the release reconciler, lines 163-168.
FulfilRelease(status) == [status EXCEPT !.Fulfilled = TRUE]

\* Mutant: the error of the hook is not checked.
HookContinuesAnyway(ok) == TRUE

\* `if err != nil { return }` after a hook (lines 92-94 and 122-130).
HookContinues(ok) == ok

\* processUpdate of either kind, up to its return.  The allocation hook
\* creates or patches the credentials record and fails if that call fails.
ProcessUpdate(o) ==
  /\ pc[o] = "processUpdate"
  /\ UNCHANGED <<store, deleting, finalizer, gets>>
  /\ IF Kind(o) = "NodeAllocationRequest"
       THEN \E id \in UUIDs, code \in {"ok", "Unavailable"} :
              LET st == AssignNodeID(copy[o].status, id)
                  ok == code = "ok"
                  created == ok /\ secret[o] # o
              IN /\ plog' = [plog EXCEPT ![o] =
                     @ \o <<Call("processUpdate", "ok"),
                            Entry("CreateOrPatch", code, {}, {}, FALSE, created)>>]
                 /\ secret' = [secret EXCEPT ![o] = IF ok THEN o ELSE @]
                 /\ IF HookContinues(ok)
                      THEN /\ copy' = [copy EXCEPT ![o].status =
                                         FulfilAllocation(st, SecretName(o))]
                           /\ pc' = [pc EXCEPT ![o] = "updateStatusPatch"]
                           /\ UNCHANGED <<object, result, queue, prev, pair>>
                      ELSE Return(o, FALSE, FALSE, store[o])
       ELSE /\ plog' = [plog EXCEPT ![o] = Append(@, Call("processUpdate", "ok"))]
            /\ copy' = [copy EXCEPT ![o].status = FulfilRelease(@)]
            /\ pc' = [pc EXCEPT ![o] = "updateStatusPatch"]
            /\ UNCHANGED <<secret, object, result, queue, prev, pair>>

\* Lines 131-147: the status patch of the update pass.
UpdateStatusPatch(o) ==
  /\ pc[o] = "updateStatusPatch"
  /\ SendPatch(o, "StatusPatch", "status", copy[o], "idle")

Reconcile(o) ==
  \/ Get(o)
  \/ AddFinalizerPatch(o)
  \/ ProcessDelete(o)
  \/ DeleteStatusPatch(o)
  \/ RemoveFinalizerPatch(o)
  \/ ProcessUpdate(o)
  \/ UpdateStatusPatch(o)

\* Faults are not counted, and not bounded, in Spec.
Unfaulted == faults' = faults

Next ==
  \/ \E o \in Objs : Create(o) /\ Unfaulted
  \/ \E o \in Objs : SpecUpdate(o) /\ Unfaulted
  \/ \E o \in Objs : Delete(o) /\ Unfaulted
  \/ \E o \in Objs : OtherRemove(o) /\ Unfaulted
  \/ \E o \in Objs : Redeliver(o) /\ Unfaulted
  \/ Stop /\ Unfaulted
  \/ \E o \in Objs : Get(o) /\ Unfaulted
  \/ \E o \in Objs : AddFinalizerPatch(o) /\ Unfaulted
  \/ \E o \in Objs : ProcessDelete(o) /\ Unfaulted
  \/ \E o \in Objs : DeleteStatusPatch(o) /\ Unfaulted
  \/ \E o \in Objs : RemoveFinalizerPatch(o) /\ Unfaulted
  \/ \E o \in Objs : ProcessUpdate(o) /\ Unfaulted
  \/ \E o \in Objs : UpdateStatusPatch(o) /\ Unfaulted

Spec == Init /\ [][Next]_vars

(***************************************************************************)
(* Liveness assumptions: the dispatcher eventually delivers every queued   *)
(* identity and every call returns (weak fairness of the steps of          *)
(* Reconcile), and the store is eventually available and the process       *)
(* eventually stays up (at most MaxFaults faults).  Nothing is assumed of  *)
(* requesters or of other controllers.                                     *)
(***************************************************************************)
Fault ==
  \/ \E o \in Objs : /\ plog'[o] # plog[o]
                     /\ plog'[o][Len(plog'[o])].code = "Unavailable"
  \/ \E o \in Objs : pc[o] # "idle" /\ result'[o] = "stopped"

Budgeted ==
  IF Fault THEN faults < MaxFaults /\ faults' = faults + 1
           ELSE faults' = faults

FairNext ==
  \/ \E o \in Objs : Create(o) /\ Budgeted
  \/ \E o \in Objs : SpecUpdate(o) /\ Budgeted
  \/ \E o \in Objs : Delete(o) /\ Budgeted
  \/ \E o \in Objs : OtherRemove(o) /\ Budgeted
  \/ \E o \in Objs : Redeliver(o) /\ Budgeted
  \/ Stop /\ Budgeted
  \/ \E o \in Objs : Get(o) /\ Budgeted
  \/ \E o \in Objs : AddFinalizerPatch(o) /\ Budgeted
  \/ \E o \in Objs : ProcessDelete(o) /\ Budgeted
  \/ \E o \in Objs : DeleteStatusPatch(o) /\ Budgeted
  \/ \E o \in Objs : RemoveFinalizerPatch(o) /\ Budgeted
  \/ \E o \in Objs : ProcessUpdate(o) /\ Budgeted
  \/ \E o \in Objs : UpdateStatusPatch(o) /\ Budgeted

FairSpec ==
  /\ Init
  /\ [][FairNext]_vars
  /\ \A o \in Objs : WF_vars(Reconcile(o) /\ Budgeted)

(***************************************************************************)
(* Two identities at once: the manager runs the two controllers side by    *)
(* side (main.go), so a pass for one identity interleaves with a pass for  *)
(* the other at every call.  Requesters create and delete both objects.    *)
(***************************************************************************)
CreateBeside(o) ==
  /\ store[o].phase = "absent"
  /\ External(o, [Blank("live") EXCEPT !.rv = 1])

PairNext ==
  \/ \E o \in Objs : CreateBeside(o) /\ Unfaulted
  \/ \E o \in Objs : Delete(o) /\ Unfaulted
  \/ \E o \in Objs : Get(o) /\ Unfaulted
  \/ \E o \in Objs : AddFinalizerPatch(o) /\ Unfaulted
  \/ \E o \in Objs : ProcessDelete(o) /\ Unfaulted
  \/ \E o \in Objs : DeleteStatusPatch(o) /\ Unfaulted
  \/ \E o \in Objs : RemoveFinalizerPatch(o) /\ Unfaulted
  \/ \E o \in Objs : ProcessUpdate(o) /\ Unfaulted
  \/ \E o \in Objs : UpdateStatusPatch(o) /\ Unfaulted

PairSpec == Init /\ [][PairNext]_vars

(***************************************************************************)
(* Helpers of the properties                                               *)
(***************************************************************************)
Ours(obj) == ContainsFinalizer(obj, finalizerName)

Ops(o) == {plog[o][i].op : i \in DOMAIN plog[o]}

Fetched(o) == plog[o] # <<>> /\ plog[o][1].code = "ok"

(***************************************************************************)
(* C1. Finalizer before cleanup: whenever the cleanup hook (processDelete) *)
(* is invoked, the snapshot of the pass contains this engine's finalizer   *)
(* and the stored object still carries it.                                 *)
(***************************************************************************)
C1_FinalizerBeforeCleanup ==
  \A o \in Objs :
    pc[o] = "processDelete" =>
      /\ Ours(object[o])
      /\ Live(store[o])
      /\ Ours(store[o])

(***************************************************************************)
(* C2. No cleanup without delete: the cleanup hook is invoked only by a    *)
(* pass whose snapshot has deletionTimestamp set, and the stored object,   *)
(* if it still exists, has it set at that moment.                          *)
(***************************************************************************)
C2_NoCleanupWithoutDelete ==
  \A o \in Objs :
    /\ pc[o] = "processDelete" =>
         /\ IsDeleting(object[o])
         /\ Live(store[o]) => IsDeleting(store[o])
    /\ "processDelete" \in Ops(o) => deleting[o]

C2_Witness ==
  \E o \in Objs :
    /\ pc[o] = "processDelete"
    /\ Live(store[o])
    /\ IsDeleting(store[o])
    /\ Ours(store[o])

(***************************************************************************)
(* C3. The claim pass is isolated: a pass whose snapshot has neither       *)
(* deletionTimestamp nor the finalizer makes one store write, a metadata   *)
(* patch that carries only the finalizers, this engine's token among them, *)
(* and returns; it calls no hook, sends no status patch and does not touch *)
(* the credentials record, whether the patch succeeds or fails.            *)
(***************************************************************************)
C3_ClaimPassIsolated ==
  \A o \in Objs :
    (Fetched(o) /\ ~deleting[o] /\ ~finalizer[o]) =>
      /\ pc[o] \in {"addFinalizer", "idle"}
      /\ Ops(o) \subseteq {"Get", "AddFinalizerPatch"}
      /\ Len(plog[o]) <= 2
      /\ pc[o] = "addFinalizer" => Len(plog[o]) = 1
      /\ (pc[o] = "idle" /\ result[o] # "stopped") => Len(plog[o]) = 2
      /\ Len(plog[o]) = 2 =>
           /\ plog[o][2].op = "AddFinalizerPatch"
           /\ plog[o][2].fields = {"metadata.finalizers"}
           /\ finalizerName \in plog[o][2].finalizers
           /\ pc[o] = "idle"
           /\ result[o] = IF plog[o][2].code = "ok" THEN "success" ELSE "error"

C3_Witness ==
  \E o \in Objs :
    /\ Fetched(o) /\ ~deleting[o] /\ ~finalizer[o]
    /\ pc[o] = "idle"
    /\ Len(plog[o]) = 2
    /\ plog[o][2].code = "ok"
    /\ Ours(store[o])

(***************************************************************************)
(* C4. Optimistic concurrency: no patch of the engine is applied when the  *)
(* stored object has changed since the Get of the pass.                    *)
(***************************************************************************)
C4_StalePatchRejected ==
  \A o \in Objs : \A i \in DOMAIN plog[o] :
    (plog[o][i].op \in PatchOps /\ plog[o][i].stale) => plog[o][i].code # "ok"

(***************************************************************************)
(* C5. Fail-stop and re-fetch: a failed store call is the last call of its *)
(* pass, the pass returns the error and the identity stays queued; every   *)
(* patch is preceded in its own pass by a successful Get, and no call is   *)
(* made twice in one pass.                                                 *)
(***************************************************************************)
Failed(e) == e.code # "ok" /\ ~(e.op = "Get" /\ e.code = "NotFound")

C5_FailStopAndRefetch ==
  \A o \in Objs :
    /\ \A i \in DOMAIN plog[o] :
         Failed(plog[o][i]) =>
           /\ i = Len(plog[o])
           /\ pc[o] = "idle"
           /\ result[o] = "error"
           /\ Live(store[o]) => o \in queue
    /\ \A i \in DOMAIN plog[o] :
         plog[o][i].op \in PatchOps => (i > 1 /\ plog[o][1] = Call("Get", "ok"))
    /\ \A i, j \in DOMAIN plog[o] : plog[o][i].op = plog[o][j].op => i = j

C5_Witness ==
  \E o \in Objs :
    /\ Len(plog[o]) >= 3
    /\ plog[o][Len(plog[o])].op = "StatusPatch"
    /\ plog[o][Len(plog[o])].code = "Unavailable"
    /\ pc[o] = "idle"
    /\ result[o] = "error"
    /\ o \in queue

(***************************************************************************)
(* C7. Deletion converges: once an object that carries this engine's       *)
(* finalizer has deletionTimestamp set, it is eventually removed from the  *)
(* store.                                                                  *)
(***************************************************************************)
C7_DeletionReachesGone ==
  \A o \in Objs :
    (Live(store[o]) /\ IsDeleting(store[o]) /\ Ours(store[o]))
      ~> (store[o].phase = "gone")

(***************************************************************************)
(* C7, amended. Once an object that carries this engine's finalizer has    *)
(* deletionTimestamp set, eventually either the object is removed from the *)
(* store, or the engine's finalizer is removed and the object is held only *)
(* by the finalizer of another controller; and the engine's finalizer is   *)
(* removed only by a pass that ran the cleanup hook.                       *)
(***************************************************************************)
C7_DeletionConverges ==
  /\ \A o \in Objs :
       (Live(store[o]) /\ IsDeleting(store[o]) /\ Ours(store[o]))
         ~> \/ store[o].phase = "gone"
            \/ Live(store[o]) /\ store[o].finalizers = {otherFinalizer}
  /\ [][\A o \in Objs :
          (Ours(store[o]) /\ ~Ours(store'[o])) =>
             /\ pc[o] = "removeFinalizer"
             /\ "processDelete" \in Ops(o)]_vars

C7_Witness ==
  \E o \in Objs :
    /\ store[o].phase = "gone"
    /\ Len(plog[o]) = 4
    /\ plog[o][4].op = "RemoveFinalizerPatch"
    /\ plog[o][4].code = "ok"
    /\ store[o].status = EmptyStatus

(***************************************************************************)
(* C6. Crash safety: after a process stop in the middle of a pass (in      *)
(* particular after the status patch of a deleting pass and before its     *)
(* finalizer removal), a later pass of a fresh instance brings the object  *)
(* to a settled state: removed from the store, or being deleted without    *)
(* this engine's finalizer, or claimed and fulfilled.  A finalizer removal *)
(* is always sent by a pass that has itself run the cleanup hook and       *)
(* patched the status.                                                     *)
(***************************************************************************)
Settled(o) ==
  \/ ~Live(store[o])
  \/ IsDeleting(store[o]) /\ ~Ours(store[o])
  \/ ~IsDeleting(store[o]) /\ Ours(store[o]) /\ store[o].status.Fulfilled

StoppedBeforeRemoval(o) ==
  /\ result[o] = "stopped"
  /\ deleting[o] /\ finalizer[o]
  /\ Len(plog[o]) = 3
  /\ plog[o][3].op = "StatusPatch"
  /\ plog[o][3].code = "ok"

C6_CrashSafety ==
  /\ \A o \in Objs : (result[o] = "stopped" /\ Live(store[o])) ~> Settled(o)
  /\ [](\A o \in Objs :
          (Len(plog[o]) = 4 /\ plog[o][4].op = "RemoveFinalizerPatch") =>
             /\ plog[o][2] = Call("processDelete", "ok")
             /\ plog[o][3].op = "StatusPatch"
             /\ plog[o][3].code = "ok")
  /\ [](\A o \in Objs : StoppedBeforeRemoval(o) => Ours(store[o]))

\* The process has stopped between the status patch and the finalizer
\* removal of a deleting pass, and the identity is queued for a fresh instance.
C6_Witness ==
  \E o \in Objs :
    /\ StoppedBeforeRemoval(o)
    /\ Live(store[o])
    /\ Ours(store[o])
    /\ pc[o] = "idle"
    /\ o \in queue

(***************************************************************************)
(* C8. Fulfilment converges: an object that is not being deleted is        *)
(* eventually fulfilled (or deleted); the status becomes fulfilled only in *)
(* a pass whose snapshot already had the finalizer, which is at least the  *)
(* second pass for the object.                                             *)
(***************************************************************************)
C8_FulfilmentConverges ==
  /\ \A o \in Objs :
       (Live(store[o]) /\ ~IsDeleting(store[o]))
         ~> (~Live(store[o]) \/ IsDeleting(store[o]) \/ store[o].status.Fulfilled)
  /\ [][\A o \in Objs :
          (~store[o].status.Fulfilled /\ store'[o].status.Fulfilled) =>
             /\ pc[o] = "updateStatusPatch"
             /\ finalizer[o]
             /\ gets[o] = 2]_vars

C8_Witness ==
  \E o \in Objs :
    /\ Live(store[o])
    /\ ~IsDeleting(store[o])
    /\ store[o].status.Fulfilled
    /\ pc[o] = "idle"
    /\ result[o] = "success"
    /\ plog[o][Len(plog[o])].changed

(***************************************************************************)
(* C9. Idempotence: after two calls of Reconcile in succession, the first  *)
(* of which returned success, with no external change since the first call *)
(* started, the second call has made at most one write that changed        *)
(* anything, and the finalizers and status stored are those stored after   *)
(* the first call.                                                         *)
(***************************************************************************)
Changes(o) == {i \in DOMAIN plog[o] : plog[o][i].changed}

C9_Idempotence ==
  \A o \in Objs :
    (pair[o].branch # "none" /\ pair[o].result = "success") =>
      /\ Cardinality(Changes(o)) <= 1
      /\ Content(store[o]) = pair[o].content

(***************************************************************************)
(* C9, amended. The same, for a first call that was not the claim pass     *)
(* (its snapshot had the finalizer or deletionTimestamp, or the object did *)
(* not exist): then no write of the second call changes anything, and the  *)
(* finalizers and status stored are those stored after the first call.     *)
(***************************************************************************)
C9_IdempotenceOnceClaimed ==
  \A o \in Objs :
    (/\ pair[o].branch \notin {"none", "addFinalizer"}
     /\ pair[o].result = "success") =>
      /\ Changes(o) = {}
      /\ Content(store[o]) = pair[o].content

C9_Witness ==
  \E o \in Objs :
    /\ pair[o].branch = "processUpdate"
    /\ pair[o].result = "success"
    /\ result[o] = "success"
    /\ plog[o][Len(plog[o])].op = "StatusPatch"
    /\ plog[o][Len(plog[o])].fields = {}
    /\ store[o].status.NodeID # ""

(***************************************************************************)
(* C10. Stable node identifier: a stored non-empty status.NodeID is never  *)
(* changed, and processUpdate keeps the identifier of a snapshot that has  *)
(* one.                                                                    *)
(***************************************************************************)
C10_StableNodeID ==
  [][\A o \in Objs :
       /\ (store[o].status.NodeID # "" /\ Live(store'[o])) =>
            store'[o].status.NodeID = store[o].status.NodeID
       /\ (pc[o] = "processUpdate" /\ pc'[o] = "updateStatusPatch"
           /\ object[o].status.NodeID # "") =>
            copy'[o].status.NodeID = object[o].status.NodeID]_vars

C10_Witness ==
  \E o \in Objs :
    /\ pc[o] = "updateStatusPatch"
    /\ object[o].status.NodeID # ""
    /\ copy[o].status.NodeID = store[o].status.NodeID
    /\ gets[o] = 2

(***************************************************************************)
(* C11. Allocation result: after a pass on a claimed allocation request    *)
(* that is not being deleted, in which processUpdate and the status patch  *)
(* both succeeded, the stored status has a non-empty NodeID, the condition *)
(* Fulfilled set to True and BMC.CredentialsName equal to "<name>-bmc",    *)
(* and the credentials record exists with the request as its owner.        *)
(***************************************************************************)
ApplySucceeded(o) ==
  /\ Fetched(o) /\ ~deleting[o] /\ finalizer[o]
  /\ Len(plog[o]) = 4
  /\ plog[o][2] = Call("processUpdate", "ok")
  /\ plog[o][3].op = "CreateOrPatch" /\ plog[o][3].code = "ok"
  /\ plog[o][4].op = "StatusPatch" /\ plog[o][4].code = "ok"

C11_AllocationResult ==
  \A o \in Objs :
    (Kind(o) = "NodeAllocationRequest" /\ ApplySucceeded(o)) =>
      /\ pc[o] = "idle"
      /\ result[o] = "success"
      /\ Live(store[o])
      /\ store[o].status.NodeID \in UUIDs
      /\ store[o].status.Fulfilled
      /\ store[o].status.CredentialsName = SecretName(o)
      /\ secret[o] = o

C11_Witness ==
  \E o \in Objs :
    /\ Kind(o) = "NodeAllocationRequest"
    /\ ApplySucceeded(o)
    /\ object[o] = NoObject
    /\ plog[o][4].fields =
         {"status.nodeID", "status.bmc.address", "status.bmc.credentialsName",
          "status.conditions"}
    /\ store[o].status.CredentialsName = "alloc-bmc"

(***************************************************************************)
(* C12. A hook error keeps the claim: when a hook returns an error, its    *)
(* call is the last of the pass, the pass sends no status patch and no     *)
(* finalizer patch, it returns the error and the identity stays queued,    *)
(* and the object is still stored with this engine's finalizer.            *)
(* processDelete returns no error in this repository, so the case that     *)
(* occurs is the one of processUpdate of the allocation reconciler.        *)
(***************************************************************************)
Hooks == {"processDelete", "processUpdate", "CreateOrPatch"}

HookFailed(o) ==
  \E i \in DOMAIN plog[o] : plog[o][i].op \in Hooks /\ plog[o][i].code # "ok"

C12_HookErrorKeepsClaim ==
  \A o \in Objs :
    HookFailed(o) =>
      /\ plog[o][Len(plog[o])].op \in Hooks
      /\ plog[o][Len(plog[o])].code # "ok"
      /\ Ops(o) \cap PatchOps = {}
      /\ pc[o] = "idle"
      /\ result[o] = "error"
      /\ Live(store[o])
      /\ finalizer[o] => Ours(store[o])
      /\ store[o].status = EmptyStatus \/ store[o].status.Fulfilled
      /\ o \in queue

C12_Witness ==
  \E o \in Objs :
    /\ HookFailed(o)
    /\ ~deleting[o] /\ finalizer[o]
    /\ result[o] = "error"
    /\ Ours(store[o])
    /\ ~store[o].status.Fulfilled
    /\ o \in queue

(***************************************************************************)
(* C13. Not-found is success: when Get reports that the object does not    *)
(* exist, Reconcile returns success and the identity is not queued again;  *)
(* the pass consists of that one call: no hook, no patch, and neither the  *)
(* store nor the credentials records change.                               *)
(***************************************************************************)
NotFoundPass(o) == plog[o] # <<>> /\ plog[o][1] = Call("Get", "NotFound")

C13_NotFoundIsSuccess ==
  /\ [](\A o \in Objs :
          NotFoundPass(o) =>
            /\ Len(plog[o]) = 1
            /\ pc[o] = "idle"
            /\ result[o] = "success"
            /\ ~Live(store[o]))
  /\ [][\A o \in Objs :
          (/\ pc[o] = "idle" /\ o \in queue /\ ~Live(store[o])
           /\ pc'[o] = "idle"
           /\ plog'[o] = <<Call("Get", "NotFound")>>) =>
             /\ result'[o] = "success"
             /\ o \notin queue'
             /\ store' = store
             /\ secret' = secret]_vars

C13_Witness ==
  \E o \in Objs :
    /\ NotFoundPass(o)
    /\ store[o].phase = "gone"
    /\ result[o] = "success"
    /\ o \notin queue

(***************************************************************************)
(* C14. Bounded writes per pass: a pass sends at most one metadata patch   *)
(* of the managed object (the finalizer added or the finalizer removed,    *)
(* never both) and at most one status patch; a pass that adds the          *)
(* finalizer sends no status patch.                                        *)
(***************************************************************************)
MetaPatches(o) ==
  {i \in DOMAIN plog[o] : plog[o][i].op \in {"AddFinalizerPatch", "RemoveFinalizerPatch"}}

StatusPatches(o) == {i \in DOMAIN plog[o] : plog[o][i].op = "StatusPatch"}

C14_BoundedWrites ==
  \A o \in Objs :
    /\ Cardinality(MetaPatches(o)) <= 1
    /\ Cardinality(StatusPatches(o)) <= 1
    /\ "AddFinalizerPatch" \in Ops(o) => StatusPatches(o) = {}

\* A deleting pass has sent its two patches, one of each kind.
C14_Witness ==
  \E o \in Objs :
    /\ Cardinality(MetaPatches(o)) = 1
    /\ Cardinality(StatusPatches(o)) = 1
    /\ plog[o][Len(plog[o])].op = "RemoveFinalizerPatch"
    /\ plog[o][Len(plog[o])].changed
    /\ pc[o] = "idle"

(***************************************************************************)
(* C15. The finalizer implies a pre-deletion observation: no object        *)
(* carries this engine's finalizer initially, the finalizer is put on a    *)
(* stored object only by the finalizer-add patch of a pass, and such a     *)
(* patch is sent only by a pass whose snapshot had no deletionTimestamp    *)
(* (and no finalizer of this engine).  Hence an object that carries the    *)
(* finalizer was fetched earlier without deletionTimestamp.                *)
(***************************************************************************)
C15_FinalizerImpliesObserved ==
  /\ \A o \in Objs : ~Ours(store[o])
  /\ [](\A o \in Objs :
          (pc[o] = "addFinalizer" \/ "AddFinalizerPatch" \in Ops(o)) =>
            /\ Fetched(o)
            /\ ~deleting[o]
            /\ pc[o] = "addFinalizer" => ~IsDeleting(object[o]) /\ ~Ours(object[o]))
  /\ [][\A o \in Objs :
          (~Ours(store[o]) /\ Ours(store'[o])) =>
             /\ pc[o] = "addFinalizer"
             /\ ~IsDeleting(object[o])
             /\ plog'[o][Len(plog'[o])].op = "AddFinalizerPatch"]_vars

\* An object claimed by a pass that saw it before deletion, now being deleted.
C15_Witness ==
  \E o \in Objs :
    /\ Ours(store[o])
    /\ IsDeleting(store[o])
    /\ "AddFinalizerPatch" \in Ops(o)
    /\ ~deleting[o]
    /\ pc[o] = "idle"

(***************************************************************************)
(* C16. Per-object isolation: a step of a pass for one identity, whether   *)
(* it succeeds or fails, leaves everything of every other identity as it   *)
(* was: the stored object, the credentials record, the pass in flight and  *)
(* its locals, and whether a trigger is queued.  The engine keeps no state *)
(* between invocations: with no pass in flight the locals do not exist,    *)
(* and a pass starts from what the store holds for its own identity.       *)
(***************************************************************************)
View(o) ==
  <<store[o], secret[o], pc[o], object[o], copy[o], deleting[o], finalizer[o],
    plog[o], result[o], o \in queue>>

PassStep(o) == plog'[o] # plog[o] \/ pc'[o] # pc[o]

C16_PerObjectIsolation ==
  /\ [][\A x \in Objs : \A y \in Objs \ {x} : PassStep(x) => View(y)' = View(y)]_vars
  /\ [][\A o \in Objs :
          (pc[o] = "idle" /\ pc'[o] # "idle") =>
             /\ object'[o] = store[o]
             /\ copy'[o] = store[o]
             /\ deleting'[o] = IsDeleting(store[o])
             /\ finalizer'[o] = Ours(store[o])
             /\ plog'[o] = <<Call("Get", "ok")>>]_vars
  /\ [](\A o \in Objs : pc[o] = "idle" => object[o] = NoObject /\ copy[o] = NoObject)

\* A pass of one identity has failed while a pass of the other was in
\* flight, and that pass has then completed its write.
C16_Witness ==
  \E x \in Objs : \E y \in Objs \ {x} :
    /\ result[x] = "error"
    /\ pc[x] = "idle"
    /\ plog[x][Len(plog[x])].op \in PatchOps
    /\ Fetched(y)
    /\ Len(plog[y]) >= 2
    /\ plog[y][Len(plog[y])].code = "ok"
    /\ plog[y][Len(plog[y])].changed
    /\ pc[y] # "idle"

(***************************************************************************)
(* C17. Order of writes in a deleting pass: a pass whose snapshot has      *)
(* deletionTimestamp calls processDelete, then sends the status patch,     *)
(* then sends the finalizer-removal patch, each only after the one before  *)
(* has succeeded; if the status patch fails the pass ends there with the   *)
(* error, and an object that carried this engine's finalizer still does.   *)
(***************************************************************************)
DeletingOrder == <<"Get", "processDelete", "StatusPatch", "RemoveFinalizerPatch">>

C17_DeletingPassOrder ==
  \A o \in Objs :
    (Fetched(o) /\ deleting[o]) =>
      /\ Len(plog[o]) <= 4
      /\ \A i \in DOMAIN plog[o] :
           /\ plog[o][i].op = DeletingOrder[i]
           /\ i < Len(plog[o]) => plog[o][i].code = "ok"
      /\ (Len(plog[o]) = 3 /\ plog[o][3].code # "ok") =>
           /\ pc[o] = "idle"
           /\ result[o] = "error"
           /\ finalizer[o] => Live(store[o]) /\ Ours(store[o])
      /\ pc[o] = "removeFinalizer" => Len(plog[o]) = 3
      /\ pc[o] = "deleteStatusPatch" => Len(plog[o]) = 2

\* The status patch of a deleting pass has failed.
C17_Witness ==
  \E o \in Objs :
    /\ Fetched(o) /\ deleting[o] /\ finalizer[o]
    /\ Len(plog[o]) = 3
    /\ plog[o][3].op = "StatusPatch"
    /\ plog[o][3].code # "ok"
    /\ Ours(store[o])
    /\ o \in queue

(***************************************************************************)
(* C18. Apply only on claimed live objects: processUpdate is invoked only  *)
(* by a pass whose snapshot contains this engine's finalizer and has no    *)
(* deletionTimestamp; a pass invokes at most one hook, at most once, and   *)
(* never both processUpdate and processDelete.                             *)
(***************************************************************************)
HookCalls(o) ==
  {i \in DOMAIN plog[o] : plog[o][i].op \in {"processUpdate", "processDelete"}}

C18_ApplyOnlyWhenClaimed ==
  \A o \in Objs :
    /\ pc[o] = "processUpdate" =>
         /\ Ours(object[o])
         /\ ~IsDeleting(object[o])
         /\ HookCalls(o) = {}
    /\ "processUpdate" \in Ops(o) => (Fetched(o) /\ finalizer[o] /\ ~deleting[o])
    /\ Cardinality(HookCalls(o)) <= 1

\* processUpdate has run on a claimed snapshot; a delete request has arrived
\* in the store since the Get.
C18_Witness ==
  \E o \in Objs :
    /\ "processUpdate" \in Ops(o)
    /\ pc[o] = "updateStatusPatch"
    /\ Ours(object[o])
    /\ ~IsDeleting(object[o])
    /\ IsDeleting(store[o])

(***************************************************************************)
(* C19. Other writers' finalizers are preserved: a metadata patch of the   *)
(* engine (finalizer added or removed) changes only this engine's own      *)
(* token in the stored finalizers, whatever another writer has done to the *)
(* object since the Get of the pass.                                       *)
(***************************************************************************)
C19_OtherFinalizersPreserved ==
  [][\A o \in Objs :
       (/\ pc[o] \in {"addFinalizer", "removeFinalizer"}
        /\ plog'[o] # plog[o]
        /\ Live(store'[o])) =>
          store'[o].finalizers \ {finalizerName} = store[o].finalizers \ {finalizerName}]_vars

(***************************************************************************)
(* C20. The credentials record precedes its reference: whenever the stored *)
(* status of an allocation request names a credentials record or is        *)
(* fulfilled, the create-or-patch of the record "<name>-bmc" has succeeded *)
(* before; and the status patch of an update pass is sent only after the   *)
(* create-or-patch of that pass has succeeded.                             *)
(***************************************************************************)
Referenced(status) == status.CredentialsName # "" \/ status.Fulfilled

C20_RecordBeforeReference ==
  \A o \in Objs :
    Kind(o) = "NodeAllocationRequest" =>
      /\ Referenced(store[o].status) =>
           /\ secret[o] = o
           /\ store[o].status.CredentialsName = SecretName(o)
      /\ (pc[o] = "updateStatusPatch" \/ (~deleting[o] /\ StatusPatches(o) # {})) =>
           /\ secret[o] = o
           /\ plog[o][3].op = "CreateOrPatch"
           /\ plog[o][3].code = "ok"

\* The record exists and is referenced by the stored status, and the process
\* has stopped in the middle of a later pass.
C20_Witness ==
  \E o \in Objs :
    /\ Kind(o) = "NodeAllocationRequest"
    /\ Referenced(store[o].status)
    /\ secret[o] = o
    /\ result[o] = "stopped"

====
